---- MODULE Spec2Model ----
(***************************************************************************)
(* Model of src/minesweeper.py: the Minesweeper board oracle, the Sentence *)
(* class and the MinesweeperAI knowledge base.                             *)
(*                                                                         *)
(* Sentences are Python objects that are mutated in place and shared       *)
(* between self.knowledge and the local snapshot copy_knowledge, so the    *)
(* model keeps them in a heap (a sequence of records indexed by object     *)
(* id); knowledge and copy_knowledge are sequences of object ids.          *)
(* add_knowledge runs as one uninterruptible call: AddKnowledge starts it  *)
(* (lines 200-222), ScanStep is one iteration of the loop of lines         *)
(* 223-234, SubsetStep one iteration of the inner loop of lines 237-249;   *)
(* no other operation is enabled until the call has returned (pc = idle).  *)
(***************************************************************************)
EXTENDS Integers, FiniteSets, Sequences, TLC

\* Board dimensions of the model (Minesweeper.__init__ / MinesweeperAI.__init__
\* take them as parameters).
Height == 3
Width == 3
\* Largest number of mines on a board of the model.
MaxMines == 3
\* Largest number of cells the driver reveals in one game of the model.
MaxMoves == 4

VARIABLES
    board,           \* Minesweeper.mines: the cells that hold a mine
    moves_made,      \* MinesweeperAI.moves_made
    safes,           \* MinesweeperAI.safes
    mines,           \* MinesweeperAI.mines
    heap,            \* the Sentence objects: heap[id] = [cells, count]
    knowledge,       \* MinesweeperAI.knowledge: sequence of object ids
    pc,              \* "idle", the loop add_knowledge is in ("scan", "subset"),
                     \* or "ValueError" once add_knowledge has raised it
    copy_knowledge,  \* the local snapshot list of add_knowledge (object ids)
    loop_i,          \* index of sent in copy_knowledge (scan loop)
    loop_o,          \* index of set_o in copy_knowledge (outer subset loop)
    loop_s,          \* index of set_s in copy_knowledge (inner subset loop)
    entry,           \* history: the sentences of knowledge when line 235 ran
    ret              \* last value returned by make_safe_move / make_random_move

vars == <<board, moves_made, safes, mines, heap, knowledge, pc,
          copy_knowledge, loop_i, loop_o, loop_s, entry, ret>>

\* Python's None, as a move.
None == <<>>

Cells == (0 .. Height - 1) \X (0 .. Width - 1)

Range(f) == {f[x] : x \in DOMAIN f}

----------------------------------------------------------------------------
(* Minesweeper (the board oracle) and MinesweeperAI.sentence *)

\* The cells the double loop of nearby_mines visits and counts over.
NearbyCells(cell) ==
    {c \in (cell[1] - 1 .. cell[1] + 1) \X (cell[2] - 1 .. cell[2] + 1) :
        /\ c # cell
        /\ 0 <= c[1] /\ c[1] < Height
        /\ 0 <= c[2] /\ c[2] < Width}

nearby_mines(b, cell) == Cardinality({c \in NearbyCells(cell) : c \in b})

is_mine(b, cell) == cell \in b

\* MinesweeperAI.sentence without the bounds test of line 177
sentence_unclipped(cell) ==
    {c \in (cell[1] - 1 .. cell[1] + 1) \X (cell[2] - 1 .. cell[2] + 1) : c # cell}

sentence(cell) ==
    {c \in (cell[1] - 1 .. cell[1] + 1) \X (cell[2] - 1 .. cell[2] + 1) :
        /\ c # cell
        /\ 0 <= c[1] /\ c[1] < Height
        /\ 0 <= c[2] /\ c[2] < Width}

----------------------------------------------------------------------------
(* class Sentence *)

Sentence(cells, count) == [cells |-> cells, count |-> count]

\* Sentence.__eq__
SentenceEq(a, b) == a.cells = b.cells /\ a.count = b.count

\* known_mines / known_safes return self.cells or None; the model returns the
\* set and a separate test tells whether the result is None.
known_mines_some(s) == Cardinality(s.cells) = s.count
known_safes_some(s) == s.count = 0

\* Sentence.mark_mine without line 118 (the count is not decremented)
Sentence_mark_mine_keeps_count(s, cell) ==
    IF cell \in s.cells
    THEN [cells |-> s.cells \ {cell}, count |-> s.count]
    ELSE s

Sentence_mark_mine(s, cell) ==
    IF cell \in s.cells
    THEN [cells |-> s.cells \ {cell}, count |-> s.count - 1]
    ELSE s

\* Sentence.mark_safe that also decrements the count, as mark_mine does
Sentence_mark_safe_decrements(s, cell) ==
    IF cell \in s.cells
    THEN [cells |-> s.cells \ {cell}, count |-> s.count - 1]
    ELSE s

Sentence_mark_safe(s, cell) ==
    IF cell \in s.cells
    THEN [cells |-> s.cells \ {cell}, count |-> s.count]
    ELSE s

----------------------------------------------------------------------------
(* class MinesweeperAI.  st = [heap, knowledge, safes, mines, raised] is the
   part of the object the inference touches, and whether an exception has
   been raised. *)

\* MinesweeperAI.mark_mine that assigns self.mines = {cell} instead of adding
mark_mine_assigns(st, cell) ==
    [st EXCEPT !.mines = {cell},
               !.heap = [id \in DOMAIN st.heap |->
                            IF id \in Range(st.knowledge)
                            THEN Sentence_mark_mine(st.heap[id], cell)
                            ELSE st.heap[id]]]

mark_mine(st, cell) ==
    [st EXCEPT !.mines = @ \cup {cell},
               !.heap = [id \in DOMAIN st.heap |->
                            IF id \in Range(st.knowledge)
                            THEN Sentence_mark_mine(st.heap[id], cell)
                            ELSE st.heap[id]]]

mark_safe(st, cell) ==
    [st EXCEPT !.safes = @ \cup {cell},
               !.heap = [id \in DOMAIN st.heap |->
                            IF id \in Range(st.knowledge)
                            THEN Sentence_mark_safe(st.heap[id], cell)
                            ELSE st.heap[id]]]

\* for i in S: self.mark_safe(i)
RECURSIVE MarkSafeEach(_, _)
MarkSafeEach(st, S) ==
    IF S = {} THEN st
    ELSE LET c == CHOOSE x \in S : TRUE
         IN MarkSafeEach(mark_safe(st, c), S \ {c})

\* for i in S: self.mark_mine(i)
RECURSIVE MarkMineEach(_, _)
MarkMineEach(st, S) ==
    IF S = {} THEN st
    ELSE LET c == CHOOSE x \in S : TRUE
         IN MarkMineEach(mark_mine(st, c), S \ {c})

\* check(sentence), the sentence being the object id
check(st, id) ==
    LET st1 == IF known_safes_some(st.heap[id])
               THEN MarkSafeEach(st, st.heap[id].cells)
               ELSE st
    IN IF known_mines_some(st1.heap[id])
       THEN MarkMineEach(st1, st1.heap[id].cells)
       ELSE st1

\* Index of the first element of list k that == the object id (0: none):
\* the element list.remove deletes, and the `in` test of line 246.
FirstEqual(st, k, id) ==
    IF \E j \in 1 .. Len(k) : SentenceEq(st.heap[k[j]], st.heap[id])
    THEN CHOOSE j \in 1 .. Len(k) :
            /\ SentenceEq(st.heap[k[j]], st.heap[id])
            /\ \A m \in 1 .. j - 1 : ~SentenceEq(st.heap[k[m]], st.heap[id])
    ELSE 0

RemoveAt(k, j) == [m \in 1 .. Len(k) - 1 |-> IF m < j THEN k[m] ELSE k[m + 1]]

\* self.knowledge.remove(x); raises ValueError when nothing equals x
KnowledgeRemove(st, id) ==
    IF FirstEqual(st, st.knowledge, id) = 0
    THEN [st EXCEPT !.raised = TRUE]
    ELSE [st EXCEPT !.knowledge = RemoveAt(@, FirstEqual(st, st.knowledge, id))]

\* lines 202-212 without line 211 (count is not reduced by the known mines)
NewSentence_keeps_count(st, cell, count) ==
    LET cell_collection == sentence(cell)
        cell_set == {i \in cell_collection : i \notin st.safes /\ i \notin st.mines}
    IN Sentence(cell_set, count)

\* lines 202-212 with the count reduced for the known safes too (line 208
\* followed by count -= 1)
NewSentence_counts_safes(st, cell, count) ==
    LET cell_collection == sentence(cell)
        cell_set == {i \in cell_collection : i \notin st.safes /\ i \notin st.mines}
        discarded == {i \in cell_collection : i \in st.safes \/ i \in st.mines}
    IN Sentence(cell_set, count - Cardinality(discarded))

\* lines 202-212 of add_knowledge: the sentence about the neighbours of cell
\* that are known neither safe nor mine (st.safes holds cell already)
NewSentence(st, cell, count) ==
    LET cell_collection == sentence(cell)
        cell_set == {i \in cell_collection : i \notin st.safes /\ i \notin st.mines}
        discarded_mines == {i \in cell_collection : i \notin st.safes /\ i \in st.mines}
    IN Sentence(cell_set, count - Cardinality(discarded_mines))

\* lines 201-220 of add_knowledge: the new sentence, check, append, re-apply
AddSentence(st, cell, count) ==
    LET id == Len(st.heap) + 1
        st0 == [st EXCEPT !.safes = @ \cup {cell}]
        st1 == [st0 EXCEPT !.heap = Append(@, NewSentence(st0, cell, count))]
        st2 == check(st1, id)
        st3 == [st2 EXCEPT !.knowledge = Append(@, id)]
        st4 == MarkSafeEach(st3, st3.safes)
    IN MarkMineEach(st4, st4.mines)

\* for c in S: self.safes.add(c); sent.mark_safe(c)      (lines 226-228)
RECURSIVE ScanSafeEach(_, _, _)
ScanSafeEach(st, id, S) ==
    IF S = {} THEN st
    ELSE LET c == CHOOSE x \in S : TRUE
         IN ScanSafeEach([st EXCEPT !.safes = @ \cup {c},
                                    !.heap[id] = Sentence_mark_safe(@, c)],
                         id, S \ {c})

\* for c in S: self.mines.add(c); sent.mark_mine(c)      (lines 230-232)
RECURSIVE ScanMineEach(_, _, _)
ScanMineEach(st, id, S) ==
    IF S = {} THEN st
    ELSE LET c == CHOOSE x \in S : TRUE
         IN ScanMineEach([st EXCEPT !.mines = @ \cup {c},
                                    !.heap[id] = Sentence_mark_mine(@, c)],
                         id, S \ {c})

\* the body of the loop of line 223 for sent = the object id
ScanBody(st, id) ==
    LET cpy_sent == st.heap[id].cells
        st1 == IF st.heap[id].count = 0
               THEN ScanSafeEach(st, id, cpy_sent)
               ELSE IF Cardinality(st.heap[id].cells) = st.heap[id].count
                    THEN ScanMineEach(st, id, cpy_sent)
                    ELSE st
    IN IF Cardinality(st1.heap[id].cells) = 0
       THEN KnowledgeRemove(st1, id)
       ELSE st1

\* line 242: set_s.cells < set_o.cells and not set_o == set_s
Derives(st, ido, ids) ==
    /\ ~SentenceEq(st.heap[ido], st.heap[ids])
    /\ st.heap[ids].cells \subseteq st.heap[ido].cells
    /\ st.heap[ids].cells # st.heap[ido].cells

\* lines 243-245 with new_count = set_o.count (set_s.count is not subtracted)
NewDifference_keeps_count(st, ido, ids) ==
    LET new_set == st.heap[ido].cells \ st.heap[ids].cells
    IN Sentence(new_set, st.heap[ido].count)

\* lines 243-245: new_sentence
NewDifference(st, ido, ids) ==
    LET new_set == st.heap[ido].cells \ st.heap[ids].cells
        new_count == st.heap[ido].count - st.heap[ids].count
    IN Sentence(new_set, new_count)

\* the body of the inner loop of line 238 for set_o, set_s = the object ids
SubsetBody(st, ido, ids) ==
    IF Derives(st, ido, ids)
    THEN LET id == Len(st.heap) + 1
             st1 == IF FirstEqual(st, st.knowledge, ids) # 0
                    THEN KnowledgeRemove(st, ids)
                    ELSE st
             st2 == [st1 EXCEPT !.heap = Append(@, NewDifference(st, ido, ids)),
                                !.knowledge = Append(@, id)]
         IN check(st2, id)
    ELSE st

\* the loop of lines 223-234 from sent = copy[i] on
RECURSIVE ScanAll(_, _, _)
ScanAll(st, copy, i) ==
    IF i > Len(copy) \/ st.raised THEN st
    ELSE ScanAll(ScanBody(st, copy[i]), copy, i + 1)

\* the loops of lines 237-249 from set_o = copy[o], set_s = copy[s] on; new
\* collects the new_sentence values of line 245
RECURSIVE SubsetAll(_, _, _, _, _)
SubsetAll(st, copy, o, s, new) ==
    IF o > Len(copy) THEN [st |-> st, new |-> new]
    ELSE IF s > Len(copy) THEN SubsetAll(st, copy, o + 1, 1, new)
    ELSE SubsetAll(SubsetBody(st, copy[o], copy[s]), copy, o, s + 1,
                   IF Derives(st, copy[o], copy[s])
                   THEN new \cup {NewDifference(st, copy[o], copy[s])}
                   ELSE new)

\* lines 217-249 of add_knowledge run on st: re-apply safes and mines, scan,
\* subset differences
Propagate(st) ==
    LET st1 == MarkSafeEach(st, st.safes)
        st2 == MarkMineEach(st1, st1.mines)
        st3 == ScanAll(st2, st2.knowledge, 1)
    IN SubsetAll(st3, st3.knowledge, 1, 1, {})

----------------------------------------------------------------------------
(* The state machine *)

AI == [heap |-> heap, knowledge |-> knowledge, safes |-> safes, mines |-> mines,
       raised |-> FALSE]

\* The sentences of a list of object ids, in order.
Values(st, k) == [j \in 1 .. Len(k) |-> st.heap[k[j]]]

Boards == {b \in SUBSET Cells : Cardinality(b) <= MaxMines}

Init ==
    /\ board \in Boards
    /\ moves_made = {}
    /\ safes = {}
    /\ mines = {}
    /\ heap = <<>>
    /\ knowledge = <<>>
    /\ pc = "idle"
    /\ copy_knowledge = <<>>
    /\ loop_i = 0
    /\ loop_o = 0
    /\ loop_s = 0
    /\ entry = <<>>
    /\ ret = [op |-> "none", move |-> None]

\* add_knowledge returns: its locals die, and the sentences no list holds any
\* more are unreachable, so the heap keeps the sentences of knowledge only.
Return(st) ==
    /\ heap' = Values(st, st.knowledge)
    /\ knowledge' = [j \in 1 .. Len(st.knowledge) |-> j]
    /\ safes' = st.safes
    /\ mines' = st.mines
    /\ pc' = "idle"
    /\ copy_knowledge' = <<>>
    /\ loop_i' = 0
    /\ loop_o' = 0
    /\ loop_s' = 0

\* list.remove raised ValueError: add_knowledge is left where it was, with the
\* object as the statements before the exception made it.
Raise(st) ==
    /\ heap' = st.heap
    /\ knowledge' = st.knowledge
    /\ safes' = st.safes
    /\ mines' = st.mines
    /\ pc' = "ValueError"
    /\ copy_knowledge' = <<>>
    /\ loop_i' = 0
    /\ loop_o' = 0
    /\ loop_s' = 0

\* line 235, then the loops of lines 237-238 start (or have nothing to run over)
EnterSubset(st) ==
    /\ entry' = Values(st, st.knowledge)
    /\ IF Len(st.knowledge) = 0
       THEN Return(st)
       ELSE /\ heap' = st.heap
            /\ knowledge' = st.knowledge
            /\ safes' = st.safes
            /\ mines' = st.mines
            /\ pc' = "subset"
            /\ copy_knowledge' = st.knowledge
            /\ loop_i' = 0
            /\ loop_o' = 1
            /\ loop_s' = 1

\* add_knowledge(cell, count) is called by the driver for a cell it revealed:
\* in bounds, not a mine, not revealed before, count from the board.
AddKnowledge(cell) ==
    /\ pc = "idle"
    /\ Cardinality(moves_made) < MaxMoves
    /\ cell \notin moves_made
    /\ ~is_mine(board, cell)
    /\ LET st == AddSentence(AI, cell, nearby_mines(board, cell))
       IN /\ moves_made' = moves_made \cup {cell}
          /\ heap' = st.heap
          /\ knowledge' = st.knowledge
          /\ safes' = st.safes
          /\ mines' = st.mines
          /\ pc' = "scan"
          /\ copy_knowledge' = st.knowledge
          /\ loop_i' = 1
          /\ loop_o' = 0
          /\ loop_s' = 0
    /\ entry' = <<>>
    /\ ret' = [op |-> "none", move |-> None]
    /\ UNCHANGED board

\* one iteration of `for sent in copy_knowledge` (lines 223-234)
ScanStep ==
    /\ pc = "scan"
    /\ LET st == ScanBody(AI, copy_knowledge[loop_i])
       IN IF st.raised
          THEN Raise(st) /\ UNCHANGED entry
          ELSE IF loop_i < Len(copy_knowledge)
          THEN /\ heap' = st.heap
               /\ knowledge' = st.knowledge
               /\ safes' = st.safes
               /\ mines' = st.mines
               /\ loop_i' = loop_i + 1
               /\ UNCHANGED <<pc, copy_knowledge, loop_o, loop_s, entry>>
          ELSE EnterSubset(st)
    /\ UNCHANGED <<board, moves_made, ret>>

\* lines 237-249 with the outer loop not moving on: at the end of the inner
\* loop the same set_o is paired with every set_s again
SubsetStep_outer_stays ==
    /\ pc = "subset"
    /\ LET st == SubsetBody(AI, copy_knowledge[loop_o], copy_knowledge[loop_s])
       IN IF loop_s < Len(copy_knowledge)
          THEN /\ heap' = st.heap
               /\ knowledge' = st.knowledge
               /\ safes' = st.safes
               /\ mines' = st.mines
               /\ loop_s' = loop_s + 1
               /\ UNCHANGED <<pc, copy_knowledge, loop_i, loop_o>>
          ELSE IF loop_o < Len(copy_knowledge)
          THEN /\ heap' = st.heap
               /\ knowledge' = st.knowledge
               /\ safes' = st.safes
               /\ mines' = st.mines
               /\ loop_s' = 1
               /\ UNCHANGED <<pc, copy_knowledge, loop_i, loop_o>>
          ELSE Return(st)
    /\ UNCHANGED <<board, moves_made, entry, ret>>

\* one iteration of `for set_s in copy_knowledge` (lines 238-249)
SubsetStep ==
    /\ pc = "subset"
    /\ LET st == SubsetBody(AI, copy_knowledge[loop_o], copy_knowledge[loop_s])
       IN IF loop_s < Len(copy_knowledge)
          THEN /\ heap' = st.heap
               /\ knowledge' = st.knowledge
               /\ safes' = st.safes
               /\ mines' = st.mines
               /\ loop_s' = loop_s + 1
               /\ UNCHANGED <<pc, copy_knowledge, loop_i, loop_o>>
          ELSE IF loop_o < Len(copy_knowledge)
          THEN /\ heap' = st.heap
               /\ knowledge' = st.knowledge
               /\ safes' = st.safes
               /\ mines' = st.mines
               /\ loop_o' = loop_o + 1
               /\ loop_s' = 1
               /\ UNCHANGED <<pc, copy_knowledge, loop_i>>
          ELSE Return(st)
    /\ UNCHANGED <<board, moves_made, entry, ret>>

\* make_safe_move() without the test of line 264: the first cell of safes
MakeSafeMove_ignores_moves_made ==
    /\ pc = "idle"
    /\ \/ \E move \in safes : ret' = [op |-> "make_safe_move", move |-> move]
       \/ /\ safes = {}
          /\ ret' = [op |-> "make_safe_move", move |-> None]
    /\ UNCHANGED <<board, moves_made, safes, mines, heap, knowledge, pc,
                   copy_knowledge, loop_i, loop_o, loop_s, entry>>

\* make_safe_move(): the first cell of safes, in the set's iteration order,
\* that is not in moves_made; any of them can be the first.
MakeSafeMove ==
    /\ pc = "idle"
    /\ \/ \E move \in safes :
            /\ move \notin moves_made
            /\ ret' = [op |-> "make_safe_move", move |-> move]
       \/ /\ \A move \in safes : move \in moves_made
          /\ ret' = [op |-> "make_safe_move", move |-> None]
    /\ UNCHANGED <<board, moves_made, safes, mines, heap, knowledge, pc,
                   copy_knowledge, loop_i, loop_o, loop_s, entry>>

\* pos_moves without the test `move not in self.mines` of line 276
pos_moves_keeps_mines == {move \in Cells : move \notin moves_made}

\* make_random_move(): random.choice over pos_moves
pos_moves == {move \in Cells : move \notin mines /\ move \notin moves_made}

MakeRandomMove ==
    /\ pc = "idle"
    /\ IF Cardinality(pos_moves) # 0
       THEN \E move \in pos_moves : ret' = [op |-> "make_random_move", move |-> move]
       ELSE ret' = [op |-> "make_random_move", move |-> None]
    /\ UNCHANGED <<board, moves_made, safes, mines, heap, knowledge, pc,
                   copy_knowledge, loop_i, loop_o, loop_s, entry>>

Next ==
    \/ \E cell \in Cells : AddKnowledge(cell)
    \/ ScanStep
    \/ SubsetStep
    \/ MakeSafeMove
    \/ MakeRandomMove

Spec == Init /\ [][Next]_vars

\* Largest number of cells without a mine on a board of SpecDense.
MaxSafeCells == 3

\* Boards that are mostly mines: the driver can reveal every cell without a
\* mine, and the engine can come to know every other cell as a mine.
DenseBoards == {b \in SUBSET Cells : Cardinality(Cells \ b) <= MaxSafeCells}

InitDense ==
    /\ board \in DenseBoards
    /\ moves_made = {}
    /\ safes = {}
    /\ mines = {}
    /\ heap = <<>>
    /\ knowledge = <<>>
    /\ pc = "idle"
    /\ copy_knowledge = <<>>
    /\ loop_i = 0
    /\ loop_o = 0
    /\ loop_s = 0
    /\ entry = <<>>
    /\ ret = [op |-> "none", move |-> None]

SpecDense == InitDense /\ [][Next]_vars

----------------------------------------------------------------------------
(* Properties *)

\* add_knowledge is not running and has been called at least once.
Returned == pc = "idle" /\ moves_made # {}

\* The sentences self.knowledge holds.
KnowledgeSentences == {heap[knowledge[j]] : j \in 1 .. Len(knowledge)}

\* C1 - Soundness: after each call of add_knowledge in a valid observation
\* sequence every cell in safes is not a mine of the board and every cell in
\* mines is a mine of the board; hence a cell returned by make_safe_move is
\* never a mine.
C1_Soundness ==
    pc = "idle" =>
        /\ \A c \in safes : ~is_mine(board, c)
        /\ \A c \in mines : is_mine(board, c)
        /\ (ret.op = "make_safe_move" /\ ret.move # None) => ~is_mine(board, ret.move)

\* add_knowledge has returned with inferred safe cells and inferred mines, and
\* make_safe_move has returned one of the inferred cells.
C1_Witness ==
    /\ Returned
    /\ mines # {}
    /\ safes \ moves_made # {}
    /\ ret.op = "make_safe_move"
    /\ ret.move \in safes \ moves_made

\* C2 - After any call of add_knowledge in a valid observation sequence the
\* sets safes and mines are disjoint.
C2_Disjoint == pc = "idle" => safes \cap mines = {}

\* add_knowledge has returned and both sets hold inferred cells.
C2_Witness ==
    /\ Returned
    /\ Cardinality(mines) >= 2
    /\ Cardinality(safes \ moves_made) >= 2

\* C3 - After any call of add_knowledge in a valid observation sequence every
\* Sentence in knowledge satisfies 0 <= count <= |cells|.
C3_CountInRange ==
    pc = "idle" =>
        \A s \in KnowledgeSentences : 0 <= s.count /\ s.count <= Cardinality(s.cells)

\* add_knowledge has returned with mines found (so mark_mine decremented
\* counts) and a sentence left whose count is strictly inside the range.
C3_Witness ==
    /\ Returned
    /\ mines # {}
    /\ \E s \in KnowledgeSentences : 0 < s.count /\ s.count < Cardinality(s.cells)

\* C9 - Monotonicity: across add_knowledge (each of its steps), make_safe_move
\* and make_random_move, safes, mines and moves_made after the step are
\* supersets of their values before it.
C9_Monotonic ==
    [][/\ safes \subseteq safes'
       /\ mines \subseteq mines'
       /\ moves_made \subseteq moves_made']_vars

\* Several calls of add_knowledge have grown all three sets and a move
\* function has been called after them.
C9_Witness ==
    /\ pc = "idle"
    /\ Cardinality(moves_made) >= 2
    /\ Cardinality(mines) >= 2
    /\ safes \ moves_made # {}
    /\ ret.op = "make_random_move"

\* C4 - After any call of add_knowledge returns, no Sentence in knowledge has
\* an empty cells set, the difference sentences the subset step appends and
\* resolves with check included.
C4_NoEmptySentence ==
    pc = "idle" => \A s \in KnowledgeSentences : s.cells # {}

\* C5 - After any call of add_knowledge returns, every cell in the cells of a
\* Sentence in knowledge is in neither safes nor mines.
C5_SentencesOverUnknownCells ==
    pc = "idle" => \A s \in KnowledgeSentences : s.cells \cap (safes \cup mines) = {}

\* C6 - After any call of add_knowledge returns, no Sentence in knowledge with
\* a non-empty cells set has count = 0 or count = |cells|.
C6_NothingResolvable ==
    pc = "idle" =>
        \A s \in KnowledgeSentences :
            s.cells # {} => (s.count # 0 /\ s.count # Cardinality(s.cells))

\* C7 - add_knowledge returns at a fixed point of propagation: running the
\* propagation steps again on the returned state with no new observation adds
\* no cell to safes or mines and derives no sentence that is not already in
\* knowledge.
C7_FixedPoint ==
    pc = "idle" =>
        /\ Propagate(AI).st.safes = safes
        /\ Propagate(AI).st.mines = mines
        /\ \A n \in Propagate(AI).new : \E s \in KnowledgeSentences : SentenceEq(n, s)

\* add_knowledge has just returned (no move function has been called since).
AfterAddKnowledge == pc = "idle" /\ moves_made # {} /\ ret.op = "none"

\* The mine placements consistent with all observations so far: no revealed
\* cell is a mine and every revealed cell has the count the board reported.
ConsistentPlacements ==
    {P \in SUBSET (Cells \ moves_made) :
        \A c \in moves_made : nearby_mines(P, c) = nearby_mines(board, c)}

\* C8 as stated - Completeness: after every call of add_knowledge every
\* unrevealed cell that is a non-mine in all consistent placements is in safes
\* and every cell that is a mine in all of them is in mines.
C8_Complete ==
    AfterAddKnowledge =>
        \A c \in Cells \ moves_made :
            /\ (\A P \in ConsistentPlacements : c \notin P) => c \in safes
            /\ (\A P \in ConsistentPlacements : c \in P) => c \in mines

\* C8 as amended - after every call of add_knowledge every cell in safes is a
\* non-mine in all mine placements consistent with the observations so far and
\* every cell in mines is a mine in all of them.
C8_SoundForObservations ==
    AfterAddKnowledge =>
        \A P \in ConsistentPlacements :
            /\ \A c \in safes : c \notin P
            /\ \A c \in mines : c \in P

\* add_knowledge has just returned with inferred safes and inferred mines
\* while the observations still allow several placements.
C8_Witness ==
    /\ AfterAddKnowledge
    /\ safes \ moves_made # {}
    /\ mines # {}
    /\ Cardinality(ConsistentPlacements) >= 2

\* C10 - Subset inference: when add_knowledge reaches its subset-difference
\* step with knowledge holding sentences A and B, B.cells a strict subset of
\* A.cells and A.count = B.count, every cell of A.cells - B.cells is in safes
\* when add_knowledge returns.
C10_SubsetInference ==
    (pc = "idle" /\ entry # <<>>) =>
        \A A \in Range(entry), B \in Range(entry) :
            (B.cells \subseteq A.cells /\ B.cells # A.cells /\ A.count = B.count)
                => (A.cells \ B.cells) \subseteq safes

\* C11 - Trivial zero: after add_knowledge(cell, 0) in a valid observation
\* sequence, cell and every in-bounds neighbour of cell are in safes.  Stated
\* for every revealed cell whose count was 0: the one of the call that has
\* just returned and, safes never shrinking, those of the calls before.
C11_TrivialZero ==
    pc = "idle" =>
        \A cell \in moves_made :
            nearby_mines(board, cell) = 0 => (sentence(cell) \cup {cell}) \subseteq safes

\* add_knowledge(cell, 0) has returned for a cell some of whose neighbours
\* were not revealed, on a board that has mines.
C11_Witness ==
    /\ pc = "idle"
    /\ board # {}
    /\ \E cell \in moves_made :
          /\ nearby_mines(board, cell) = 0
          /\ sentence(cell) \ moves_made # {}

\* C12 - Trivial full: after add_knowledge(cell, count) with count = the
\* number of in-bounds neighbours of cell, every in-bounds neighbour of cell
\* is in mines, whether or not some of them were in mines before the call.
\* Stated for every revealed cell with such a count (mines never shrinks), and
\* without the condition that no neighbour was in safes, which it implies.
C12_TrivialFull ==
    pc = "idle" =>
        \A cell \in moves_made :
            nearby_mines(board, cell) = Cardinality(sentence(cell))
                => sentence(cell) \subseteq mines

\* add_knowledge has returned for a cell whose neighbours are all mines, none
\* of them in safes, after other cells had been revealed.
C12_Witness ==
    /\ pc = "idle"
    /\ Cardinality(moves_made) >= 2
    /\ \E cell \in moves_made :
          /\ nearby_mines(board, cell) = Cardinality(sentence(cell))
          /\ sentence(cell) \cap safes = {}
          /\ sentence(cell) \subseteq mines

\* The cells of the board at row and column distance at most 1 from cell,
\* cell excluded.
Adjacent(cell) ==
    {c \in Cells :
        /\ c # cell
        /\ c[1] - cell[1] \in {-1, 0, 1}
        /\ c[2] - cell[2] \in {-1, 0, 1}}

Corner(cell) == cell[1] \in {0, Height - 1} /\ cell[2] \in {0, Width - 1}
Interior(cell) ==
    /\ 0 < cell[1] /\ cell[1] < Height - 1
    /\ 0 < cell[2] /\ cell[2] < Width - 1

\* For every cell of the board sentence(cell) is the set of in-bounds cells at
\* distance at most 1 without the cell: 3 cells for a corner, 5 for another
\* edge cell, 8 for an interior cell.
ClippedEverywhere ==
    \A cell \in Cells :
        /\ sentence(cell) = Adjacent(cell)
        /\ Corner(cell) => Cardinality(sentence(cell)) = 3
        /\ (~Corner(cell) /\ ~Interior(cell)) => Cardinality(sentence(cell)) = 5
        /\ Interior(cell) => Cardinality(sentence(cell)) = 8

\* C15 - Neighbourhood clipping: for every cell of the board sentence(cell) is
\* exactly the set of in-bounds cells at row and column distance at most 1
\* from cell without cell itself (3 cells for a corner, 5 for another edge
\* cell, 8 for an interior cell), and the count the board's nearby_mines
\* reports for a revealed cell is the number of mines in that same set.
C15_Clipping ==
    /\ ClippedEverywhere
    /\ \A cell \in moves_made :
          nearby_mines(board, cell) = Cardinality(sentence(cell) \cap board)

\* add_knowledge has built sentences for a corner, for an edge and for an
\* interior cell of a board with mines.
C15_Witness ==
    /\ pc = "idle"
    /\ board # {}
    /\ \E c \in moves_made : Corner(c)
    /\ \E c \in moves_made : Interior(c)
    /\ \E c \in moves_made : ~Corner(c) /\ ~Interior(c)

\* C16 - Duplicate avoidance: after any call of add_knowledge in a valid
\* observation sequence knowledge holds no two Sentences that are equal (same
\* cells and same count).
C16_NoDuplicates ==
    pc = "idle" =>
        \A i \in 1 .. Len(knowledge), j \in 1 .. Len(knowledge) :
            i # j => ~SentenceEq(heap[knowledge[i]], heap[knowledge[j]])

\* A sentence is a true statement about the board.
TrueOfBoard(s) == s.count = Cardinality(s.cells \cap board)

\* C18 - Truthfulness: in every reachable state, the states between the steps
\* of add_knowledge included, every Sentence in knowledge is true of the
\* board, and so is every sentence of the snapshot copy_knowledge, from which
\* the subset step derives even after it removed the sentence from knowledge.
C18_Truthful ==
    \A id \in Range(knowledge) \cup Range(copy_knowledge) : TrueOfBoard(heap[id])

\* add_knowledge is inside its subset loops, has removed a sentence of the
\* snapshot from knowledge, and knowledge holds a sentence with mines.
C18_Witness ==
    /\ pc = "subset"
    /\ \E id \in Range(copy_knowledge) : id \notin Range(knowledge)
    /\ \E id \in Range(knowledge) : heap[id].count > 0
    /\ mines # {}

\* C13 - make_safe_move returns a cell that is in safes and not in moves_made
\* whenever there is one, returns None exactly when safes is a subset of
\* moves_made (so in the initial state), and changes none of safes, mines,
\* moves_made, knowledge.
C13_SafeMove ==
    /\ [](ret.op = "make_safe_move" =>
            /\ ret.move = None <=> safes \subseteq moves_made
            /\ ret.move # None => (ret.move \in safes /\ ret.move \notin moves_made)
            /\ moves_made = {} => ret.move = None)
    /\ [][(pc = "idle" /\ ret'.op = "make_safe_move") =>
            UNCHANGED <<safes, mines, moves_made, knowledge, heap>>]_vars

\* make_safe_move has returned one of several inferred safe cells that are
\* not revealed yet, some revealed cells being in safes too.
C13_Witness ==
    /\ ret.op = "make_safe_move"
    /\ ret.move # None
    /\ Cardinality(safes \ moves_made) >= 2
    /\ Cardinality(moves_made) >= 2

\* make_random_move can return cell c in this state.
CanReturn(c) == ENABLED (MakeRandomMove /\ ret' = [op |-> "make_random_move", move |-> c])

\* C14 - make_random_move returns a cell of the board that is in neither
\* mines nor moves_made, any such cell being a possible result, and returns
\* None exactly when every cell of the board is in mines or moves_made; in the
\* initial state every cell of the board is a possible result.
C14_RandomMove ==
    /\ ret.op = "make_random_move" =>
          /\ ret.move = None <=> (\A c \in Cells : c \in mines \/ c \in moves_made)
          /\ ret.move # None =>
                (ret.move \in Cells /\ ret.move \notin mines /\ ret.move \notin moves_made)
    /\ pc = "idle" =>
          \A c \in Cells : (c \notin mines /\ c \notin moves_made) => CanReturn(c)
    /\ (pc = "idle" /\ moves_made = {}) =>
          Cardinality({c \in Cells : CanReturn(c)}) = Height * Width

\* make_random_move has returned None: every cell without a mine is revealed
\* and every other cell is known to be a mine.
C14_Witness ==
    /\ ret.op = "make_random_move"
    /\ ret.move = None
    /\ moves_made # {}
    /\ mines # {}

\* make_random_move has returned a cell that is not known to be safe while
\* some mines are known.
C14_GuessReached ==
    /\ ret.op = "make_random_move"
    /\ ret.move # None
    /\ ret.move \notin safes
    /\ mines # {}

\* C19 - Progress of the move choice: in every state reachable by a valid
\* observation sequence in which some cell without a mine is not in
\* moves_made, make_safe_move and make_random_move do not both return None,
\* and a cell they return is not in moves_made.
C19_Progress ==
    (pc = "idle" /\ \E c \in Cells : ~is_mine(board, c) /\ c \notin moves_made) =>
        /\ ~(/\ ENABLED (MakeSafeMove /\ ret'.move = None)
             /\ ENABLED (MakeRandomMove /\ ret'.move = None))
        /\ (ret.op # "none" /\ ret.move # None) => ret.move \notin moves_made

\* make_safe_move has nothing to offer, cells without a mine are still to be
\* revealed, mines are known, and make_random_move has returned a cell.
C19_Witness ==
    /\ pc = "idle"
    /\ moves_made # {}
    /\ mines # {}
    /\ safes \subseteq moves_made
    /\ \E c \in Cells : ~is_mine(board, c) /\ c \notin moves_made
    /\ ret.op = "make_random_move"
    /\ ret.move # None

\* The position of a running call in its loops.
position == <<pc, loop_i, loop_o, loop_s>>

\* A step of the scan loop, told by its effect on the position: from
\* pc = "scan" the only step of Next is ScanStep, and it moves loop_i on or
\* leaves the loop.
ScanAdvances ==
    /\ pc = "scan"
    /\ pc' \in {"scan", "subset", "idle", "ValueError"}
    /\ loop_i' \in 0 .. MaxMoves + 1

\* A step of the subset-pair loops, told in the same way: SubsetStep moves
\* loop_s or loop_o on, or returns.
SubsetAdvances ==
    /\ pc = "subset"
    /\ pc' \in {"subset", "idle", "ValueError"}
    /\ loop_o' \in 0 .. MaxMoves + 1
    /\ loop_s' \in 0 .. MaxMoves + 1

\* The interpreter runs add_knowledge on, once it is called: a loop iteration
\* that can be taken is taken.  The driver's calls carry no such obligation.
Fairness == WF_<<pc, loop_i>>(ScanAdvances) /\ WF_<<pc, loop_o, loop_s>>(SubsetAdvances)

SpecFair == Spec /\ Fairness

\* C17 - Termination: every call to add_knowledge, from any state reachable
\* by a valid observation sequence, returns after finitely many steps of its
\* scan and subset-pair loops (and does not end in an exception instead),
\* every step of a running call moving its position in the loops on.
C17_Termination ==
    /\ (pc # "idle") ~> (pc = "idle")
    /\ [][(pc \in {"scan", "subset"} => (position' # position))]_vars
    /\ [](pc # "ValueError")

\* The subset-pair loops are in their second outer iteration or later and
\* knowledge no longer is the list they iterate over.
C17_Witness ==
    /\ pc = "subset"
    /\ loop_o >= 2
    /\ knowledge # copy_knowledge

====
